---- MODULE Spec2Model ----
(***************************************************************************)
(* Keccak trace-column layout (optimism/src/keccak/column.rs) and the      *)
(* runtime lookup tables (kimchi/src/circuits/lookup/runtime_tables.rs).   *)
(*                                                                         *)
(* Rust arrays and Vecs are TLA+ sequences: Rust index i is TLA+ index     *)
(* i + 1.  A panic (failed bounds check, unwrap of None or Err) is the     *)
(* value Panic; a returned value v is Ok(v).                               *)
(***************************************************************************)
EXTENDS Integers, Sequences, FiniteSets, TLC

VARIABLES
    row,     \* the KeccakColumns<T> the operations act on
    sel,     \* the KeccakColumn handed to index / index_mut
    flat,    \* iter_contents: the Vec a traversal built, or from_par_iter's input
    mode,    \* which traversal built flat
    edit,    \* what happened to the sequence on its way to collect: the caller's
             \* adaptors, or workers finishing out of order
    out,     \* the result of the last operation: Ok(v) or Panic
    pc,      \* position of the caller
    arg,     \* the value argument: the value written through index_mut, or the
             \* parameter of the per-cell function of a parallel map
    jobs,    \* rayon's producers: the sub-ranges of flat not yet split
    buf,     \* the target Vec of rayon's collect
    cfg,     \* a RuntimeTableCfg
    cfg2,    \* a second RuntimeTableCfg
    table,   \* a prover-time RuntimeTable
    env,     \* the values of the runtime-table cells on the current and next row
    cs       \* the Vec constraints() returned

vars == <<row, sel, flat, mode, edit, out, pc, arg, jobs, buf,
          cfg, cfg2, table, env, cs>>

keccakVars == <<row, sel, flat, mode, edit, out, arg, jobs, buf>>
rtVars == <<cfg, cfg2, table, env, cs>>

\* ------------------------------------------------------------------ results
Panic == [tag |-> "Panic"]
Ok(v) == [tag |-> "Ok", val |-> v]
None == [tag |-> "None"]

\* ---------------------------------------------------------------- constants
MODE_FLAGS_COLS_LENGTH == 7
SUFFIX_COLS_LENGTH == 5

\* kimchi::circuits::polynomials::keccak::constants and super::ZKVM_KECCAK_COLS_*
\* (values as documented by the layout comments of column.rs)
QUARTERS == 4
RATE_IN_BYTES == 136
ZKVM_KECCAK_COLS_CURR == 1965
ZKVM_KECCAK_COLS_NEXT == 100

ZKVM_KECCAK_COLS_LENGTH ==
    ZKVM_KECCAK_COLS_CURR + ZKVM_KECCAK_COLS_NEXT + QUARTERS + RATE_IN_BYTES
        + SUFFIX_COLS_LENGTH + MODE_FLAGS_COLS_LENGTH + 2

FLAG_ROUND_OFFSET == 0
FLAG_ABSORB_OFFSET == 1
FLAG_SQUEEZE_OFFSET == 2
FLAG_ROOT_OFFSET == 3
FLAG_PAD_LENGTH_OFFSET == 4
FLAG_INV_PAD_LENGTH_OFFSET == 5
FLAG_TWO_TO_PAD_OFFSET == 6

THETA_SHIFTS_C_OFF == 100
THETA_DENSE_C_OFF == 180
THETA_QUOTIENT_C_OFF == 200
THETA_REMAINDER_C_OFF == 205
THETA_DENSE_ROT_C_OFF == 225
THETA_EXPAND_ROT_C_OFF == 245
PIRHO_SHIFTS_E_OFF == 265
PIRHO_DENSE_E_OFF == 665
PIRHO_QUOTIENT_E_OFF == 765
PIRHO_REMAINDER_E_OFF == 865
PIRHO_DENSE_ROT_E_OFF == 965
PIRHO_EXPAND_ROT_E_OFF == 1065
CHI_SHIFTS_B_OFF == 1165
CHI_SHIFTS_SUM_OFF == 1565
SPONGE_NEW_STATE_OFF == 100
SPONGE_BYTES_OFF == 200
SPONGE_SHIFTS_OFF == 400

\* ------------------------------------------------------------- KeccakColumns
\* struct KeccakColumns<T>: the fields and their array widths
FieldWidth(f) ==
    CASE f = "hash_index" -> 1
      [] f = "step_index" -> 1
      [] f = "mode_flags" -> MODE_FLAGS_COLS_LENGTH
      [] f = "pad_bytes_flags" -> RATE_IN_BYTES
      [] f = "pad_suffix" -> SUFFIX_COLS_LENGTH
      [] f = "round_constants" -> QUARTERS
      [] f = "curr" -> ZKVM_KECCAK_COLS_CURR
      [] f = "next" -> ZKVM_KECCAK_COLS_NEXT

\* A place expression: field f, and for an array field the Rust index i
Place(f, i) == [f |-> f, i |-> i]

\* Reading the cell a reference points to
Deref(r, p) ==
    CASE p.f = "hash_index" -> r.hash_index
      [] p.f = "step_index" -> r.step_index
      [] p.f = "mode_flags" -> r.mode_flags[p.i + 1]
      [] p.f = "pad_bytes_flags" -> r.pad_bytes_flags[p.i + 1]
      [] p.f = "pad_suffix" -> r.pad_suffix[p.i + 1]
      [] p.f = "round_constants" -> r.round_constants[p.i + 1]
      [] p.f = "curr" -> r.curr[p.i + 1]
      [] p.f = "next" -> r.next[p.i + 1]

\* Writing through a mutable reference
Store(r, p, v) ==
    CASE p.f = "hash_index" -> [r EXCEPT !.hash_index = v]
      [] p.f = "step_index" -> [r EXCEPT !.step_index = v]
      [] p.f = "mode_flags" -> [r EXCEPT !.mode_flags[p.i + 1] = v]
      [] p.f = "pad_bytes_flags" -> [r EXCEPT !.pad_bytes_flags[p.i + 1] = v]
      [] p.f = "pad_suffix" -> [r EXCEPT !.pad_suffix[p.i + 1] = v]
      [] p.f = "round_constants" -> [r EXCEPT !.round_constants[p.i + 1] = v]
      [] p.f = "curr" -> [r EXCEPT !.curr[p.i + 1] = v]
      [] p.f = "next" -> [r EXCEPT !.next[p.i + 1] = v]

\* Rust's bounds check on array indexing: a[i] panics unless i < a.len()
InBounds(p) == p.i < FieldWidth(p.f)

\* std::array::from_fn(|_| T::zero()) and T::zero()
Zeros(n) == [k \in 1..n |-> 0]

\* A slip in default(): the mode flags initialised with T::one()
default_flags_one ==
    [hash_index |-> 0,
     step_index |-> 0,
     mode_flags |-> [k \in 1..MODE_FLAGS_COLS_LENGTH |-> 1],
     pad_bytes_flags |-> Zeros(RATE_IN_BYTES),
     pad_suffix |-> Zeros(SUFFIX_COLS_LENGTH),
     round_constants |-> Zeros(QUARTERS),
     curr |-> Zeros(ZKVM_KECCAK_COLS_CURR),
     next |-> Zeros(ZKVM_KECCAK_COLS_NEXT)]

\* impl Default for KeccakColumns<T>
default ==
    [hash_index |-> 0,
     step_index |-> 0,
     mode_flags |-> Zeros(MODE_FLAGS_COLS_LENGTH),
     pad_bytes_flags |-> Zeros(RATE_IN_BYTES),
     pad_suffix |-> Zeros(SUFFIX_COLS_LENGTH),
     round_constants |-> Zeros(QUARTERS),
     curr |-> Zeros(ZKVM_KECCAK_COLS_CURR),
     next |-> Zeros(ZKVM_KECCAK_COLS_NEXT)]

\* -------------------------------------------------------------- KeccakColumn
\* enum KeccakColumn: the variants without a sub-index ...
BareVariants ==
    {"HashIndex", "StepIndex", "FlagRound", "FlagAbsorb", "FlagSqueeze",
     "FlagRoot", "PadLength", "InvPadLength", "TwoToPad"}

\* ... and the variants carrying a usize
IndexedVariants ==
    {"PadBytesFlags", "PadSuffix", "RoundConstants", "Input", "ThetaShiftsC",
     "ThetaDenseC", "ThetaQuotientC", "ThetaRemainderC", "ThetaDenseRotC",
     "ThetaExpandRotC", "PiRhoShiftsE", "PiRhoDenseE", "PiRhoQuotientE",
     "PiRhoRemainderE", "PiRhoDenseRotE", "PiRhoExpandRotE", "ChiShiftsB",
     "ChiShiftsSum", "SpongeNewState", "SpongeBytes", "SpongeShifts", "Output"}

\* A KeccakColumn value; a bare variant carries i = 0
Col(v, i) == [v |-> v, i |-> i]

\* The declared width of each variant's group, from the range comments of the
\* enum: "Curr[100..180)" gives ThetaShiftsC the width 80
GroupWidth(v) ==
    CASE v \in BareVariants -> 1
      [] v = "PadBytesFlags" -> 136
      [] v = "PadSuffix" -> 5
      [] v = "RoundConstants" -> QUARTERS
      [] v = "Input" -> 100
      [] v = "ThetaShiftsC" -> 180 - 100
      [] v = "ThetaDenseC" -> 200 - 180
      [] v = "ThetaQuotientC" -> 205 - 200
      [] v = "ThetaRemainderC" -> 225 - 205
      [] v = "ThetaDenseRotC" -> 245 - 225
      [] v = "ThetaExpandRotC" -> 265 - 245
      [] v = "PiRhoShiftsE" -> 665 - 265
      [] v = "PiRhoDenseE" -> 765 - 665
      [] v = "PiRhoQuotientE" -> 865 - 765
      [] v = "PiRhoRemainderE" -> 965 - 865
      [] v = "PiRhoDenseRotE" -> 1065 - 965
      [] v = "PiRhoExpandRotE" -> 1165 - 1065
      [] v = "ChiShiftsB" -> 1565 - 1165
      [] v = "ChiShiftsSum" -> 1965 - 1565
      [] v = "SpongeNewState" -> 200 - 100
      [] v = "SpongeBytes" -> 400 - 200
      [] v = "SpongeShifts" -> 800 - 400
      [] v = "Output" -> 100

\* The place each arm of index's match names
IndexPlace(s) ==
    CASE s.v = "HashIndex" -> Place("hash_index", 0)
      [] s.v = "StepIndex" -> Place("step_index", 0)
      [] s.v = "FlagRound" -> Place("mode_flags", FLAG_ROUND_OFFSET)
      [] s.v = "FlagAbsorb" -> Place("mode_flags", FLAG_ABSORB_OFFSET)
      [] s.v = "FlagSqueeze" -> Place("mode_flags", FLAG_SQUEEZE_OFFSET)
      [] s.v = "FlagRoot" -> Place("mode_flags", FLAG_ROOT_OFFSET)
      [] s.v = "PadLength" -> Place("mode_flags", FLAG_PAD_LENGTH_OFFSET)
      [] s.v = "InvPadLength" -> Place("mode_flags", FLAG_INV_PAD_LENGTH_OFFSET)
      [] s.v = "TwoToPad" -> Place("mode_flags", FLAG_TWO_TO_PAD_OFFSET)
      [] s.v = "PadBytesFlags" -> Place("pad_bytes_flags", s.i)
      [] s.v = "PadSuffix" -> Place("pad_suffix", s.i)
      [] s.v = "RoundConstants" -> Place("round_constants", s.i)
      [] s.v = "Input" -> Place("curr", s.i)
      [] s.v = "ThetaShiftsC" -> Place("curr", THETA_SHIFTS_C_OFF + s.i)
      [] s.v = "ThetaDenseC" -> Place("curr", THETA_DENSE_C_OFF + s.i)
      [] s.v = "ThetaQuotientC" -> Place("curr", THETA_QUOTIENT_C_OFF + s.i)
      [] s.v = "ThetaRemainderC" -> Place("curr", THETA_REMAINDER_C_OFF + s.i)
      [] s.v = "ThetaDenseRotC" -> Place("curr", THETA_DENSE_ROT_C_OFF + s.i)
      [] s.v = "ThetaExpandRotC" -> Place("curr", THETA_EXPAND_ROT_C_OFF + s.i)
      [] s.v = "PiRhoShiftsE" -> Place("curr", PIRHO_SHIFTS_E_OFF + s.i)
      [] s.v = "PiRhoDenseE" -> Place("curr", PIRHO_DENSE_E_OFF + s.i)
      [] s.v = "PiRhoQuotientE" -> Place("curr", PIRHO_QUOTIENT_E_OFF + s.i)
      [] s.v = "PiRhoRemainderE" -> Place("curr", PIRHO_REMAINDER_E_OFF + s.i)
      [] s.v = "PiRhoDenseRotE" -> Place("curr", PIRHO_DENSE_ROT_E_OFF + s.i)
      [] s.v = "PiRhoExpandRotE" -> Place("curr", PIRHO_EXPAND_ROT_E_OFF + s.i)
      [] s.v = "ChiShiftsB" -> Place("curr", CHI_SHIFTS_B_OFF + s.i)
      [] s.v = "ChiShiftsSum" -> Place("curr", CHI_SHIFTS_SUM_OFF + s.i)
      [] s.v = "SpongeNewState" -> Place("curr", SPONGE_NEW_STATE_OFF + s.i)
      [] s.v = "SpongeBytes" -> Place("curr", SPONGE_BYTES_OFF + s.i)
      [] s.v = "SpongeShifts" -> Place("curr", SPONGE_SHIFTS_OFF + s.i)
      [] s.v = "Output" -> Place("next", s.i)

\* impl Index<KeccakColumn>: the reference returned, or the panic of the
\* array's bounds check (the only check the arms make)
index(s) ==
    IF InBounds(IndexPlace(s)) THEN Ok(IndexPlace(s)) ELSE Panic

\* The place each arm of index_mut's match names
IndexMutPlace(s) ==
    CASE s.v = "HashIndex" -> Place("hash_index", 0)
      [] s.v = "StepIndex" -> Place("step_index", 0)
      [] s.v = "FlagRound" -> Place("mode_flags", FLAG_ROUND_OFFSET)
      [] s.v = "FlagAbsorb" -> Place("mode_flags", FLAG_ABSORB_OFFSET)
      [] s.v = "FlagSqueeze" -> Place("mode_flags", FLAG_SQUEEZE_OFFSET)
      [] s.v = "FlagRoot" -> Place("mode_flags", FLAG_ROOT_OFFSET)
      [] s.v = "PadLength" -> Place("mode_flags", FLAG_PAD_LENGTH_OFFSET)
      [] s.v = "InvPadLength" -> Place("mode_flags", FLAG_INV_PAD_LENGTH_OFFSET)
      [] s.v = "TwoToPad" -> Place("mode_flags", FLAG_TWO_TO_PAD_OFFSET)
      [] s.v = "PadBytesFlags" -> Place("pad_bytes_flags", s.i)
      [] s.v = "PadSuffix" -> Place("pad_suffix", s.i)
      [] s.v = "RoundConstants" -> Place("round_constants", s.i)
      [] s.v = "Input" -> Place("curr", s.i)
      [] s.v = "ThetaShiftsC" -> Place("curr", THETA_SHIFTS_C_OFF + s.i)
      [] s.v = "ThetaDenseC" -> Place("curr", THETA_DENSE_C_OFF + s.i)
      [] s.v = "ThetaQuotientC" -> Place("curr", THETA_QUOTIENT_C_OFF + s.i)
      [] s.v = "ThetaRemainderC" -> Place("curr", THETA_REMAINDER_C_OFF + s.i)
      [] s.v = "ThetaDenseRotC" -> Place("curr", THETA_DENSE_ROT_C_OFF + s.i)
      [] s.v = "ThetaExpandRotC" -> Place("curr", THETA_EXPAND_ROT_C_OFF + s.i)
      [] s.v = "PiRhoShiftsE" -> Place("curr", PIRHO_SHIFTS_E_OFF + s.i)
      [] s.v = "PiRhoDenseE" -> Place("curr", PIRHO_DENSE_E_OFF + s.i)
      [] s.v = "PiRhoQuotientE" -> Place("curr", PIRHO_QUOTIENT_E_OFF + s.i)
      [] s.v = "PiRhoRemainderE" -> Place("curr", PIRHO_REMAINDER_E_OFF + s.i)
      [] s.v = "PiRhoDenseRotE" -> Place("curr", PIRHO_DENSE_ROT_E_OFF + s.i)
      [] s.v = "PiRhoExpandRotE" -> Place("curr", PIRHO_EXPAND_ROT_E_OFF + s.i)
      [] s.v = "ChiShiftsB" -> Place("curr", CHI_SHIFTS_B_OFF + s.i)
      [] s.v = "ChiShiftsSum" -> Place("curr", CHI_SHIFTS_SUM_OFF + s.i)
      [] s.v = "SpongeNewState" -> Place("curr", SPONGE_NEW_STATE_OFF + s.i)
      [] s.v = "SpongeBytes" -> Place("curr", SPONGE_BYTES_OFF + s.i)
      [] s.v = "SpongeShifts" -> Place("curr", SPONGE_SHIFTS_OFF + s.i)
      [] s.v = "Output" -> Place("next", s.i)

\* A slip in index_mut: the ThetaDenseC arm written with THETA_SHIFTS_C_OFF
index_mut_wrong_offset(s) ==
    LET p == IF s.v = "ThetaDenseC"
             THEN Place("curr", THETA_SHIFTS_C_OFF + s.i)
             ELSE IndexMutPlace(s)
    IN  IF InBounds(p) THEN Ok(p) ELSE Panic

\* impl IndexMut<KeccakColumn>
index_mut(s) ==
    IF InBounds(IndexMutPlace(s)) THEN Ok(IndexMutPlace(s)) ELSE Panic

\* ----------------------------------------------------------- Sequencing layer
\* impl IntoIterator for KeccakColumns<F>: push, push, then six extends
into_iter(r) ==
    <<r.hash_index>> \o <<r.step_index>> \o r.mode_flags \o r.pad_bytes_flags
        \o r.pad_suffix \o r.round_constants \o r.curr \o r.next

\* A slip in into_par_iter: step_index pushed before hash_index
into_par_iter_pushes_swapped(r) ==
    <<r.step_index>> \o <<r.hash_index>> \o r.mode_flags \o r.pad_bytes_flags
        \o r.pad_suffix \o r.round_constants \o r.curr \o r.next

\* impl IntoParallelIterator for KeccakColumns<G>: the Vec handed to rayon
into_par_iter(r) ==
    <<r.hash_index>> \o <<r.step_index>> \o r.mode_flags \o r.pad_bytes_flags
        \o r.pad_suffix \o r.round_constants \o r.curr \o r.next

\* extend(&self.f): one reference per element of the array field f
Refs(f, a) == [k \in 1..Len(a) |-> Place(f, k - 1)]

\* A slip in the borrowed traversal: round_constants extended before pad_suffix
ref_into_par_iter_groups_swapped(r) ==
    <<Place("hash_index", 0)>> \o <<Place("step_index", 0)>>
        \o Refs("mode_flags", r.mode_flags)
        \o Refs("pad_bytes_flags", r.pad_bytes_flags)
        \o Refs("round_constants", r.round_constants)
        \o Refs("pad_suffix", r.pad_suffix)
        \o Refs("curr", r.curr)
        \o Refs("next", r.next)

\* impl IntoParallelIterator for &KeccakColumns<G>: a Vec of shared references
ref_into_par_iter(r) ==
    <<Place("hash_index", 0)>> \o <<Place("step_index", 0)>>
        \o Refs("mode_flags", r.mode_flags)
        \o Refs("pad_bytes_flags", r.pad_bytes_flags)
        \o Refs("pad_suffix", r.pad_suffix)
        \o Refs("round_constants", r.round_constants)
        \o Refs("curr", r.curr)
        \o Refs("next", r.next)

\* impl IntoParallelIterator for &mut KeccakColumns<G>: a Vec of mutable references
mut_into_par_iter(r) ==
    <<Place("hash_index", 0)>> \o <<Place("step_index", 0)>>
        \o Refs("mode_flags", r.mode_flags)
        \o Refs("pad_bytes_flags", r.pad_bytes_flags)
        \o Refs("pad_suffix", r.pad_suffix)
        \o Refs("round_constants", r.round_constants)
        \o Refs("curr", r.curr)
        \o Refs("next", r.next)

\* iter_contents.drain(iter_contents.len() - n ..).collect::<Vec<G>>():
\* with len < n the subtraction overflows: a debug build panics on it, a
\* release build wraps to a start beyond len and drain panics on that
drain_tail(v, n) ==
    IF Len(v) < n
    THEN Panic
    ELSE [tag |-> "Ok",
          rest |-> SubSeq(v, 1, Len(v) - n),
          taken |-> SubSeq(v, Len(v) - n + 1, Len(v))]

\* Vec<G>.try_into::<[G; n]>().unwrap(): Err, and so a panic, unless len = n
try_into_array(xs, n) == IF Len(xs) = n THEN Ok(xs) ELSE Panic

\* A slip in from_par_iter: the element taken from the front, not the back
pop_front(v) ==
    IF Len(v) = 0
    THEN None
    ELSE [tag |-> "Some", val |-> v[1], rest |-> SubSeq(v, 2, Len(v))]

\* iter_contents.pop(): None on an empty Vec; unwrap() then panics
pop(v) ==
    IF Len(v) = 0
    THEN None
    ELSE [tag |-> "Some", val |-> v[Len(v)], rest |-> SubSeq(v, 1, Len(v) - 1)]

\* impl FromParallelIterator<G> for KeccakColumns<G>, on the collected Vec v
from_par_iter(v) ==
    LET d_next == drain_tail(v, ZKVM_KECCAK_COLS_NEXT)
        a_next == try_into_array(d_next.taken, ZKVM_KECCAK_COLS_NEXT)
        d_curr == drain_tail(d_next.rest, ZKVM_KECCAK_COLS_CURR)
        a_curr == try_into_array(d_curr.taken, ZKVM_KECCAK_COLS_CURR)
        d_rc == drain_tail(d_curr.rest, QUARTERS)
        a_rc == try_into_array(d_rc.taken, QUARTERS)
        d_suffix == drain_tail(d_rc.rest, SUFFIX_COLS_LENGTH)
        a_suffix == try_into_array(d_suffix.taken, SUFFIX_COLS_LENGTH)
        d_pad == drain_tail(d_suffix.rest, RATE_IN_BYTES)
        a_pad == try_into_array(d_pad.taken, RATE_IN_BYTES)
        d_flags == drain_tail(d_pad.rest, MODE_FLAGS_COLS_LENGTH)
        a_flags == try_into_array(d_flags.taken, MODE_FLAGS_COLS_LENGTH)
        p_step == pop(d_flags.rest)
        p_hash == pop(p_step.rest)
    IN  IF d_next.tag = "Panic" \/ a_next.tag = "Panic" THEN Panic
        ELSE IF d_curr.tag = "Panic" \/ a_curr.tag = "Panic" THEN Panic
        ELSE IF d_rc.tag = "Panic" \/ a_rc.tag = "Panic" THEN Panic
        ELSE IF d_suffix.tag = "Panic" \/ a_suffix.tag = "Panic" THEN Panic
        ELSE IF d_pad.tag = "Panic" \/ a_pad.tag = "Panic" THEN Panic
        ELSE IF d_flags.tag = "Panic" \/ a_flags.tag = "Panic" THEN Panic
        ELSE IF p_step.tag = "None" THEN Panic
        ELSE IF p_hash.tag = "None" THEN Panic
        ELSE Ok([hash_index |-> p_hash.val,
                 step_index |-> p_step.val,
                 mode_flags |-> a_flags.val,
                 pad_bytes_flags |-> a_pad.val,
                 pad_suffix |-> a_suffix.val,
                 round_constants |-> a_rc.val,
                 curr |-> a_curr.val,
                 next |-> a_next.val])

\* ------------------------------------------------------------------- inputs
MaxBase == 2
MaxShort == 2
MaxDelta == 2

\* A row filled with pairwise distinct marker values (none of them zero)
MarkerRow(b) ==
    [hash_index |-> 10000 + b,
     step_index |-> 20000 + b,
     mode_flags |-> [k \in 1..MODE_FLAGS_COLS_LENGTH |-> 30000 + 10 * k + b],
     pad_bytes_flags |-> [k \in 1..RATE_IN_BYTES |-> 40000 + 10 * k + b],
     pad_suffix |-> [k \in 1..SUFFIX_COLS_LENGTH |-> 50000 + 10 * k + b],
     round_constants |-> [k \in 1..QUARTERS |-> 60000 + 10 * k + b],
     curr |-> [k \in 1..ZKVM_KECCAK_COLS_CURR |-> 100000 + 10 * k + b],
     next |-> [k \in 1..ZKVM_KECCAK_COLS_NEXT |-> 70000 + 10 * k + b]]

Rows == {default} \cup {MarkerRow(b) : b \in 1..MaxBase}

\* The lengths the caller's take(n) cuts a traversal to: the very short ones,
\* the ones just below the total width, and the ones around each drain of
\* from_par_iter
TakeLens ==
    (0..MaxShort)
        \cup {ZKVM_KECCAK_COLS_LENGTH - k : k \in 1..MaxDelta}
        \cup {ZKVM_KECCAK_COLS_NEXT - 1, ZKVM_KECCAK_COLS_NEXT,
              ZKVM_KECCAK_COLS_NEXT + ZKVM_KECCAK_COLS_CURR - 1,
              ZKVM_KECCAK_COLS_NEXT + ZKVM_KECCAK_COLS_CURR,
              ZKVM_KECCAK_COLS_LENGTH - 2 - MODE_FLAGS_COLS_LENGTH}

\* Values of the variables an operation family does not use
NoCol == Col("HashIndex", 0)
NoCfg == [id |-> 0, first_column |-> <<>>]
NoTable == [id |-> 0, data |-> <<>>]
NoEnv == [tv |-> 0, ts |-> 0, ntv |-> 0, nts |-> 0]

KeccakIdle ==
    /\ sel = NoCol /\ flat = <<>> /\ mode = "none" /\ edit = "none"
    /\ out = None /\ arg = 0 /\ jobs = {} /\ buf = <<>>

RtIdle ==
    /\ cfg = NoCfg /\ cfg2 = NoCfg /\ table = NoTable /\ env = NoEnv /\ cs = <<>>

\* ------------------------------------------------- Sequencing: the operations
InitSeq ==
    /\ row \in Rows
    /\ pc = "row"
    /\ KeccakIdle
    /\ RtIdle

\* let it = row.into_iter()
IntoIter ==
    /\ pc = "row"
    /\ flat' = into_iter(row)
    /\ mode' = "owned_seq"
    /\ pc' = "flat"
    /\ UNCHANGED <<row, sel, edit, out, arg, jobs, buf, rtVars>>

\* let it = row.into_par_iter()
IntoParIter ==
    /\ pc = "row"
    /\ flat' = into_par_iter(row)
    /\ mode' = "owned_par"
    /\ pc' = "flat"
    /\ UNCHANGED <<row, sel, edit, out, arg, jobs, buf, rtVars>>

\* let it = (&row).into_par_iter()
RefIntoParIter ==
    /\ pc = "row"
    /\ flat' = ref_into_par_iter(row)
    /\ mode' = "ref_par"
    /\ pc' = "flat"
    /\ UNCHANGED <<row, sel, edit, out, arg, jobs, buf, rtVars>>

\* let it = (&mut row).into_par_iter()
MutIntoParIter ==
    /\ pc = "row"
    /\ flat' = mut_into_par_iter(row)
    /\ mode' = "mut_par"
    /\ pc' = "flat"
    /\ UNCHANGED <<row, sel, edit, out, arg, jobs, buf, rtVars>>

\* it.take(n): the caller shortens the sequence at its end
Take(n) ==
    /\ pc = "flat" /\ edit = "none"
    /\ n < Len(flat)
    /\ flat' = SubSeq(flat, 1, n)
    /\ edit' = "take"
    /\ UNCHANGED <<row, sel, mode, out, pc, arg, jobs, buf, rtVars>>

\* it.skip(k): the caller shortens the sequence at its front
Skip(k) ==
    /\ pc = "flat" /\ edit = "none"
    /\ k <= Len(flat)
    /\ flat' = SubSeq(flat, k + 1, Len(flat))
    /\ edit' = "skip"
    /\ UNCHANGED <<row, sel, mode, out, pc, arg, jobs, buf, rtVars>>

\* it.chain(extra) and extra.chain(it): the caller lengthens the sequence by
\* k more elements, taken here from the traversal's own first cells
Chain(k, front) ==
    /\ pc = "flat" /\ edit = "none"
    /\ k <= Len(flat)
    /\ flat' = IF front THEN SubSeq(flat, 1, k) \o flat
                        ELSE flat \o SubSeq(flat, 1, k)
    /\ edit' = IF front THEN "chain_front" ELSE "chain_back"
    /\ UNCHANGED <<row, sel, mode, out, pc, arg, jobs, buf, rtVars>>

\* let rebuilt: KeccakColumns<_> = it.collect(), of a parallel iterator (the
\* owned sequential std::vec::IntoIter is no IntoParallelIterator)
FromParIter ==
    /\ pc = "flat"
    /\ mode \in {"owned_par", "ref_par", "mut_par"}
    /\ out' = from_par_iter(flat)
    /\ pc' = "rebuilt"
    /\ UNCHANGED <<row, sel, flat, mode, edit, arg, jobs, buf, rtVars>>

NextSeq ==
    \/ IntoIter
    \/ IntoParIter
    \/ RefIntoParIter
    \/ MutIntoParIter
    \/ \E n \in TakeLens : Take(n)
    \/ \E k \in 1..MaxDelta : Skip(k)
    \/ \E k \in 1..MaxDelta, front \in BOOLEAN : Chain(k, front)
    \/ FromParIter

SpecSeq == InitSeq /\ [][NextSeq]_vars

\* ------------------------------------------------- Sequencing: the properties
\* The canonical order: the cell at position k (from 0) of a traversal, with
\* the widths 2 + 7 + 136 + 5 + 4 + C + N
CanonPlace(k) ==
    IF k = 0 THEN Place("hash_index", 0)
    ELSE IF k = 1 THEN Place("step_index", 0)
    ELSE IF k < 2 + 7 THEN Place("mode_flags", k - 2)
    ELSE IF k < 2 + 7 + 136 THEN Place("pad_bytes_flags", k - (2 + 7))
    ELSE IF k < 2 + 7 + 136 + 5 THEN Place("pad_suffix", k - (2 + 7 + 136))
    ELSE IF k < 2 + 7 + 136 + 5 + 4
        THEN Place("round_constants", k - (2 + 7 + 136 + 5))
    ELSE IF k < 2 + 7 + 136 + 5 + 4 + ZKVM_KECCAK_COLS_CURR
        THEN Place("curr", k - (2 + 7 + 136 + 5 + 4))
    ELSE Place("next", k - (2 + 7 + 136 + 5 + 4 + ZKVM_KECCAK_COLS_CURR))

TotalWidth == 2 + 7 + 136 + 5 + 4 + ZKVM_KECCAK_COLS_CURR + ZKVM_KECCAK_COLS_NEXT

Range(q) == {q[k] : k \in 1..Len(q)}

\* Two rows agree in every field and at every index
SameRow(a, b) ==
    /\ a.hash_index = b.hash_index
    /\ a.step_index = b.step_index
    /\ Len(a.mode_flags) = 7 /\ Len(b.mode_flags) = 7
    /\ \A i \in 1..7 : a.mode_flags[i] = b.mode_flags[i]
    /\ Len(a.pad_bytes_flags) = 136 /\ Len(b.pad_bytes_flags) = 136
    /\ \A i \in 1..136 : a.pad_bytes_flags[i] = b.pad_bytes_flags[i]
    /\ Len(a.pad_suffix) = 5 /\ Len(b.pad_suffix) = 5
    /\ \A i \in 1..5 : a.pad_suffix[i] = b.pad_suffix[i]
    /\ Len(a.round_constants) = 4 /\ Len(b.round_constants) = 4
    /\ \A i \in 1..4 : a.round_constants[i] = b.round_constants[i]
    /\ Len(a.curr) = ZKVM_KECCAK_COLS_CURR /\ Len(b.curr) = ZKVM_KECCAK_COLS_CURR
    /\ \A i \in 1..ZKVM_KECCAK_COLS_CURR : a.curr[i] = b.curr[i]
    /\ Len(a.next) = ZKVM_KECCAK_COLS_NEXT /\ Len(b.next) = ZKVM_KECCAK_COLS_NEXT
    /\ \A i \in 1..ZKVM_KECCAK_COLS_NEXT : a.next[i] = b.next[i]

\* C1: a row flattened by the owned into_par_iter and rebuilt by from_par_iter
\* is rebuilt without a panic and equals the row in hash_index,
\* step_index and at each index of every array field.
C1_RoundTrip ==
    (pc = "rebuilt" /\ mode = "owned_par" /\ edit = "none")
        => (out.tag = "Ok" /\ SameRow(out.val, row))

\* C1 witness: a row of pairwise distinct markers has made the round trip
C1_Witness ==
    /\ pc = "rebuilt" /\ mode = "owned_par" /\ edit = "none"
    /\ row = MarkerRow(1)
    /\ Cardinality(Range(flat)) = TotalWidth
    /\ out.tag = "Ok"

\* C2 (as claimed): from_par_iter of a sequence whose length differs from the
\* total width W, shorter or longer, panics and returns no row.
C2_WrongLengthPanics ==
    (pc = "rebuilt" /\ Len(flat) # TotalWidth) => out = Panic

\* C9: every traversal mode exposes exactly W = 2 + 7 + 136 + 5 + 4 + C + N
\* positions (W = ZKVM_KECCAK_COLS_LENGTH); position k is the cell the
\* canonical order puts there (its value for the owned modes, a reference to
\* it for the borrowed modes), and every cell appears exactly once.
C9_CanonicalOrder ==
    (pc = "flat" /\ edit = "none") =>
        /\ Len(flat) = TotalWidth
        /\ TotalWidth = ZKVM_KECCAK_COLS_LENGTH
        /\ mode \in {"owned_seq", "owned_par"} =>
              /\ \A k \in 0..(TotalWidth - 1) :
                    flat[k + 1] = Deref(row, CanonPlace(k))
              /\ row # default => Cardinality(Range(flat)) = TotalWidth
        /\ mode \in {"ref_par", "mut_par"} =>
              /\ \A k \in 0..(TotalWidth - 1) :
                    /\ flat[k + 1] = CanonPlace(k)
                    /\ InBounds(flat[k + 1])
              /\ Cardinality(Range(flat)) = TotalWidth

\* C9 witness: the four modes have each built their sequence from a marker row
C9_WitnessRef ==
    /\ pc = "flat" /\ edit = "none" /\ mode = "ref_par"
    /\ row = MarkerRow(1)
    /\ Deref(row, flat[TotalWidth]) = row.next[ZKVM_KECCAK_COLS_NEXT]

\* ------------------------------------------------- Addressing: the operations
MaxOob == 1

\* The sub-indices a caller passes: every valid one, and the first MaxOob
\* beyond the declared width of the variant's group
SubIdx(v) == 0..(GroupWidth(v) - 1 + MaxOob)

AllCols ==
    {Col(v, 0) : v \in BareVariants}
        \cup UNION {{Col(v, i) : i \in SubIdx(v)} : v \in IndexedVariants}

\* The selectors written through: for each variant the first, the middle and
\* the last valid sub-index, and the first MaxOob beyond the declared width
ProbeIdx(v) ==
    {0, GroupWidth(v) \div 2, GroupWidth(v) - 1}
        \cup (GroupWidth(v)..(GroupWidth(v) - 1 + MaxOob))

ProbeCols ==
    {Col(v, 0) : v \in BareVariants}
        \cup UNION {{Col(v, i) : i \in ProbeIdx(v)} : v \in IndexedVariants}

\* The values a caller writes: no marker, and not zero
WriteVals == {7}

InitAddr ==
    /\ row = MarkerRow(1)
    /\ pc = "row"
    /\ KeccakIdle
    /\ RtIdle

\* row = KeccakColumns::default()
Default ==
    /\ pc = "row" /\ mode = "none"
    /\ row' = default
    /\ mode' = "default"
    /\ UNCHANGED <<sel, flat, edit, out, pc, arg, jobs, buf, rtVars>>

\* let x = &row[s]
Index(s) ==
    /\ pc = "row"
    /\ sel' = s
    /\ out' = index(s)
    /\ pc' = "read"
    /\ UNCHANGED <<row, flat, mode, edit, arg, jobs, buf, rtVars>>

\* row[s] = v
IndexMut(s, v) ==
    /\ pc = "row"
    /\ sel' = s
    /\ arg' = v
    /\ out' = index_mut(s)
    /\ row' = IF index_mut(s).tag = "Ok" THEN Store(row, index_mut(s).val, v) ELSE row
    /\ pc' = "written"
    /\ UNCHANGED <<flat, mode, edit, jobs, buf, rtVars>>

NextAddr ==
    \/ Default
    \/ \E s \in AllCols : Index(s)
    \/ \E s \in ProbeCols, v \in WriteVals : IndexMut(s, v)

SpecAddr == InitAddr /\ [][NextAddr]_vars

\* ------------------------------------------------- Addressing: the properties
\* The selectors live on a round row and on a sponge row
RoundVariants ==
    BareVariants \cup
    {"PadBytesFlags", "PadSuffix", "RoundConstants", "Input", "ThetaShiftsC",
     "ThetaDenseC", "ThetaQuotientC", "ThetaRemainderC", "ThetaDenseRotC",
     "ThetaExpandRotC", "PiRhoShiftsE", "PiRhoDenseE", "PiRhoQuotientE",
     "PiRhoRemainderE", "PiRhoDenseRotE", "PiRhoExpandRotE", "ChiShiftsB",
     "ChiShiftsSum", "Output"}

SpongeVariants ==
    BareVariants \cup
    {"PadBytesFlags", "PadSuffix", "RoundConstants", "Input", "SpongeNewState",
     "SpongeBytes", "SpongeShifts", "Output"}

\* The selectors of a phase with a valid sub-index
ValidCols(P) == UNION {{Col(v, i) : i \in 0..(GroupWidth(v) - 1)} : v \in P}
RoundCols == ValidCols(RoundVariants)
SpongeCols == ValidCols(SpongeVariants)

ValidCol(s) == s.i < GroupWidth(s.v)

\* The variants of each phase that live in curr, in layout order
RoundCurrOrder ==
    <<"Input", "ThetaShiftsC", "ThetaDenseC", "ThetaQuotientC",
      "ThetaRemainderC", "ThetaDenseRotC", "ThetaExpandRotC", "PiRhoShiftsE",
      "PiRhoDenseE", "PiRhoQuotientE", "PiRhoRemainderE", "PiRhoDenseRotE",
      "PiRhoExpandRotE", "ChiShiftsB", "ChiShiftsSum">>

SpongeCurrOrder == <<"Input", "SpongeNewState", "SpongeBytes", "SpongeShifts">>

\* The groups of a phase lie in curr end to end from index 0, within its width
Contiguous(order) ==
    /\ index(Col(order[1], 0)) = Ok(Place("curr", 0))
    /\ \A j \in 1..(Len(order) - 1) :
          /\ index(Col(order[j], GroupWidth(order[j]) - 1)).tag = "Ok"
          /\ index(Col(order[j + 1], 0)) =
                Ok(Place("curr",
                         index(Col(order[j], GroupWidth(order[j]) - 1)).val.i + 1))
    /\ LET last == Col(order[Len(order)], GroupWidth(order[Len(order)]) - 1)
       IN  /\ index(last).tag = "Ok"
           /\ index(last).val.f = "curr"
           /\ index(last).val.i < ZKVM_KECCAK_COLS_CURR

\* The write through s left every other selector t of the phase untouched,
\* and t names another slot
OthersUntouched(cols, s, before, after) ==
    \A t \in cols \ {s} :
        /\ index(t).tag = "Ok"
        /\ index(t).val # index(s).val
        /\ Deref(after, index(t).val) = Deref(before, index(t).val)

\* C3 (as claimed): index and index_mut with a sub-index at or beyond the
\* declared width of the variant's own group panic.
C3_OutOfBoundsPanics ==
    (pc \in {"read", "written"} /\ sel.v \in IndexedVariants
        /\ sel.i >= GroupWidth(sel.v))
        => out = Panic

\* No two selectors of a phase name the same slot
Injective(cols) ==
    /\ \A t \in cols : index(t).tag = "Ok"
    /\ Cardinality({index(t).val : t \in cols}) = Cardinality(cols)

\* C4: for every selector with a valid sub-index, index and index_mut name the
\* same slot and the value written through index_mut is read back through
\* index; within the round phase and within the sponge phase no two selectors
\* name the same slot, a write through one selector changes the value read
\* through no other selector, and the curr groups of each phase are laid end
\* to end inside curr's width.
C4_AddressingBijection ==
    [][/\ (pc' = "read" /\ ValidCol(sel')) =>
             (out'.tag = "Ok" /\ index_mut(sel') = out')
       /\ (pc' = "written" /\ ValidCol(sel')) =>
             /\ out'.tag = "Ok"
             /\ index(sel') = out'
             /\ Deref(row', index(sel').val) = arg'
             /\ Injective(RoundCols)
             /\ Injective(SpongeCols)
             /\ sel'.v \in RoundVariants =>
                   OthersUntouched(RoundCols, sel', row, row')
             /\ sel'.v \in SpongeVariants =>
                   OthersUntouched(SpongeCols, sel', row, row')
             /\ Contiguous(RoundCurrOrder)
             /\ Contiguous(SpongeCurrOrder)]_vars

\* C4 witness: a write through a sponge selector has landed in its curr slot
C4_Witness ==
    /\ pc = "written" /\ sel = Col("SpongeBytes", 199) /\ out.tag = "Ok"
    /\ arg \in WriteVals
    /\ row.curr[SPONGE_BYTES_OFF + 199 + 1] = arg

AllZero(r) ==
    /\ r.hash_index = 0
    /\ r.step_index = 0
    /\ Len(r.mode_flags) = 7 /\ \A i \in 1..7 : r.mode_flags[i] = 0
    /\ Len(r.pad_bytes_flags) = 136 /\ \A i \in 1..136 : r.pad_bytes_flags[i] = 0
    /\ Len(r.pad_suffix) = 5 /\ \A i \in 1..5 : r.pad_suffix[i] = 0
    /\ Len(r.round_constants) = 4 /\ \A i \in 1..4 : r.round_constants[i] = 0
    /\ Len(r.curr) = ZKVM_KECCAK_COLS_CURR
    /\ \A i \in 1..ZKVM_KECCAK_COLS_CURR : r.curr[i] = 0
    /\ Len(r.next) = ZKVM_KECCAK_COLS_NEXT
    /\ \A i \in 1..ZKVM_KECCAK_COLS_NEXT : r.next[i] = 0

\* C5: the row default() returns holds zero in hash_index, step_index, the 7
\* mode_flags, the 136 pad_bytes_flags, the 5 pad_suffix, the 4
\* round_constants and every curr and next cell, and reading it through any
\* selector with a valid sub-index yields zero.
C5_DefaultZero ==
    mode = "default" =>
        /\ pc = "row" => AllZero(row)
        /\ (pc = "read" /\ ValidCol(sel)) =>
              (out.tag = "Ok" /\ Deref(row, out.val) = 0)

\* C5 witness: a mode flag of a default row has been read
C5_Witness ==
    /\ mode = "default" /\ pc = "read" /\ sel = Col("TwoToPad", 0)
    /\ out = Ok(Place("mode_flags", 6))

\* --------------------------------------------- Parallel map and collect (rayon)
MaxJobs == 4
MaxFn == 1

\* The per-cell function of the map, one for each parameter a
f(a, x) == a * x + 1

\* A cell of collect's target Vec no worker has written yet
Unset == 0 - 1

InitPar ==
    /\ row = MarkerRow(1)
    /\ arg \in 0..MaxFn
    /\ pc = "row"
    /\ sel = NoCol /\ flat = <<>> /\ mode = "none" /\ edit = "none"
    /\ out = None /\ jobs = {} /\ buf = <<>>
    /\ RtIdle

\* row.into_par_iter().map(f): one producer over the whole Vec, and the
\* target of collect::<Vec<_>>() with one slot per position
ParMap ==
    /\ pc = "row"
    /\ flat' = into_par_iter(row)
    /\ mode' = "owned_par"
    /\ jobs' = {[lo |-> 0, hi |-> Len(into_par_iter(row)), done |-> FALSE]}
    /\ buf' = [k \in 1..Len(into_par_iter(row)) |-> Unset]
    /\ pc' = "map"
    /\ UNCHANGED <<row, sel, edit, out, arg, rtVars>>

\* rayon splits a producer at its middle into two, each with its own half of
\* the target
Split(j) ==
    /\ pc = "map"
    /\ j \in jobs /\ ~j.done
    /\ j.hi - j.lo >= 2
    /\ Cardinality(jobs) < MaxJobs
    /\ LET mid == j.lo + (j.hi - j.lo) \div 2
       IN  jobs' = (jobs \ {j}) \cup {[lo |-> j.lo, hi |-> mid, done |-> FALSE],
                                      [lo |-> mid, hi |-> j.hi, done |-> FALSE]}
    /\ UNCHANGED <<row, sel, flat, mode, edit, out, pc, arg, buf, rtVars>>

\* A worker folds one producer: f of each of its cells, written to the slot of
\* the same position
Work(j) ==
    /\ pc = "map"
    /\ j \in jobs /\ ~j.done
    /\ buf' = [k \in 1..Len(buf) |->
                  IF j.lo < k /\ k <= j.hi THEN f(arg, flat[k]) ELSE buf[k]]
    /\ jobs' = (jobs \ {j}) \cup {[j EXCEPT !.done = TRUE]}
    /\ edit' = IF \E e \in jobs : ~e.done /\ e.hi <= j.lo
               THEN "out_of_order" ELSE edit
    /\ UNCHANGED <<row, sel, flat, mode, out, pc, arg, rtVars>>

\* Every producer is folded: from_par_iter goes on with the collected Vec
Collect ==
    /\ pc = "map"
    /\ \A j \in jobs : j.done
    /\ out' = from_par_iter(buf)
    /\ pc' = "rebuilt"
    /\ UNCHANGED <<row, sel, flat, mode, edit, arg, jobs, buf, rtVars>>

NextPar ==
    \/ ParMap
    \/ \E j \in jobs : Split(j)
    \/ \E j \in jobs : Work(j)
    \/ Collect

SpecPar == InitPar /\ [][NextPar]_vars

\* Row b holds f(a, .) of row r's cell at every named position
MappedRow(a, r, b) ==
    /\ b.hash_index = f(a, r.hash_index)
    /\ b.step_index = f(a, r.step_index)
    /\ Len(b.mode_flags) = 7
    /\ \A i \in 1..7 : b.mode_flags[i] = f(a, r.mode_flags[i])
    /\ Len(b.pad_bytes_flags) = 136
    /\ \A i \in 1..136 : b.pad_bytes_flags[i] = f(a, r.pad_bytes_flags[i])
    /\ Len(b.pad_suffix) = 5
    /\ \A i \in 1..5 : b.pad_suffix[i] = f(a, r.pad_suffix[i])
    /\ Len(b.round_constants) = 4
    /\ \A i \in 1..4 : b.round_constants[i] = f(a, r.round_constants[i])
    /\ Len(b.curr) = ZKVM_KECCAK_COLS_CURR
    /\ \A i \in 1..ZKVM_KECCAK_COLS_CURR : b.curr[i] = f(a, r.curr[i])
    /\ Len(b.next) = ZKVM_KECCAK_COLS_NEXT
    /\ \A i \in 1..ZKVM_KECCAK_COLS_NEXT : b.next[i] = f(a, r.next[i])

\* C10: whatever the partition of the parallel iterator and the order in which
\* the workers finish, the row collected from the mapped cells holds, at every
\* named position, f of the cell of the original row at that position.
C10_OrderPreserved ==
    pc = "rebuilt" => (out.tag = "Ok" /\ MappedRow(arg, row, out.val))

\* C10 witness: a row was collected after a worker finished a later part of
\* the sequence before an earlier one, under a function that is not constant
C10_Witness ==
    /\ pc = "rebuilt" /\ edit = "out_of_order" /\ arg = 1
    /\ Cardinality(jobs) = MaxJobs
    /\ out.tag = "Ok"

\* ------------------------------------------------------------ Runtime tables
FieldOrder == 5
MaxCol == 3

\* The field F, as the integers modulo FieldOrder
F == 0..(FieldOrder - 1)

\* E::cell(col, row): a variable naming a column on the current or next row
Cell(col, r) == [op |-> "cell", col |-> col, row |-> r]

\* E * E: the product node of the expression tree
Mul(l, r) == [op |-> "mul", l |-> l, r |-> r]

\* A slip in constraints(): the cells read on the next row
constraints_next_row ==
    <<Mul(Cell("LookupRuntimeTable", "Next"), Cell("LookupRuntimeSelector", "Next"))>>

\* pub fn constraints<F>() -> Vec<E<F>>
constraints ==
    LET var(x) == Cell(x, "Curr")
        rt_check == Mul(var("LookupRuntimeTable"), var("LookupRuntimeSelector"))
    IN  <<rt_check>>

\* The value of a cell on the rows the constraint is evaluated at
CellValue(e, col, r) ==
    CASE col = "LookupRuntimeTable" /\ r = "Curr" -> e.tv
      [] col = "LookupRuntimeSelector" /\ r = "Curr" -> e.ts
      [] col = "LookupRuntimeTable" /\ r = "Next" -> e.ntv
      [] col = "LookupRuntimeSelector" /\ r = "Next" -> e.nts

\* The expression engine's evaluation of an expression over F
RECURSIVE Eval(_, _)
Eval(x, e) ==
    CASE x.op = "cell" -> CellValue(e, x.col, x.row)
      [] x.op = "mul" -> (Eval(x.l, e) * Eval(x.r, e)) % FieldOrder

\* RuntimeTableCfg::id
RuntimeTableCfg_id(c) == c.id

\* RuntimeTableCfg::len
RuntimeTableCfg_len(c) == Len(c.first_column)

\* A slip in is_empty: a one-entry table taken for empty
is_empty_below_two(c) == Len(c.first_column) <= 1

\* RuntimeTableCfg::is_empty (Vec::is_empty is len() == 0)
RuntimeTableCfg_is_empty(c) == Len(c.first_column) = 0

\* A slip in the projection: len taken one short
from_one_short(rt_cfg) ==
    [id |-> rt_cfg.id,
     len |-> IF Len(rt_cfg.first_column) = 0 THEN 0 ELSE Len(rt_cfg.first_column) - 1]

\* impl From<RuntimeTableCfg<F>> for RuntimeTableSpec
RuntimeTableSpec_from(rt_cfg) ==
    [id |-> rt_cfg.id, len |-> Len(rt_cfg.first_column)]

\* The prover's check of a runtime table against the specification registered
\* at setup: the id and the length must both match, else a fatal error
check_runtime_table(spec, t) ==
    IF spec.id = t.id /\ spec.len = Len(t.data) THEN Ok(t) ELSE Panic

\* The inputs: ids, first columns and data columns
Ids == {0 - 1, 7}
RECURSIVE SeqsUpTo(_, _)
SeqsUpTo(S, n) ==
    IF n = 0 THEN {<<>>}
    ELSE SeqsUpTo(S, n - 1) \cup
         {Append(q, x) : q \in {p \in SeqsUpTo(S, n - 1) : Len(p) = n - 1}, x \in S}
Columns == SeqsUpTo({1, 2}, MaxCol) \cup {<<1, 2, 3>>}
Cfgs == {[id |-> i, first_column |-> c] : i \in Ids, c \in Columns}
Tables == {[id |-> i, data |-> [k \in 1..n |-> 10 * k]] : i \in Ids, n \in 0..(MaxCol + 1)}
Envs == [tv : F, ts : F, ntv : F, nts : F]

InitRt ==
    /\ pc = "start"
    /\ row = None
    /\ KeccakIdle
    /\ RtIdle

\* The witness assigns the runtime-table cells of two consecutive rows
Assign(e) ==
    /\ pc = "start"
    /\ env' = e
    /\ pc' = "assigned"
    /\ UNCHANGED <<keccakVars, cfg, cfg2, table, cs>>

\* let cs = constraints()
Constraints ==
    /\ pc = "assigned"
    /\ cs' = constraints
    /\ pc' = "built"
    /\ UNCHANGED <<keccakVars, cfg, cfg2, table, env>>

\* Each returned constraint is evaluated on the current row
Evaluate ==
    /\ pc = "built"
    /\ out' = [k \in 1..Len(cs) |-> Eval(cs[k], env)]
    /\ pc' = "evaluated"
    /\ UNCHANGED <<row, sel, flat, mode, edit, arg, jobs, buf, rtVars>>

\* Setup: two configurations are declared, read through the accessors and
\* projected to their specifications
Setup(c1, c2) ==
    /\ pc = "start"
    /\ cfg' = c1
    /\ cfg2' = c2
    /\ out' = [id |-> RuntimeTableCfg_id(c1),
               len |-> RuntimeTableCfg_len(c1),
               is_empty |-> RuntimeTableCfg_is_empty(c1),
               spec |-> RuntimeTableSpec_from(c1),
               spec2 |-> RuntimeTableSpec_from(c2)]
    /\ pc' = "setup"
    /\ UNCHANGED <<row, sel, flat, mode, edit, arg, jobs, buf, table, env, cs>>

\* Proving: a runtime table is supplied and checked against the first
\* configuration's specification
Prove(t) ==
    /\ pc = "setup"
    /\ table' = t
    /\ out' = check_runtime_table(out.spec, t)
    /\ pc' = "checked"
    /\ UNCHANGED <<row, sel, flat, mode, edit, arg, jobs, buf, cfg, cfg2, env, cs>>

NextRt ==
    \/ \E e \in Envs : Assign(e)
    \/ Constraints
    \/ Evaluate
    \/ \E c1 \in Cfgs, c2 \in Cfgs : Setup(c1, c2)
    \/ \E t \in Tables : Prove(t)

SpecRt == InitRt /\ [][NextRt]_vars

\* C6: constraints() returns exactly one expression, the product of the
\* current-row LookupRuntimeTable cell and the current-row
\* LookupRuntimeSelector cell; it evaluates to zero when the selector is 0, or
\* the selector is 1 and the value is 0, and to nonzero when the selector is 1
\* and the value is nonzero.
C6_RuntimeTableGate ==
    pc = "evaluated" =>
        /\ Len(cs) = 1 /\ Len(out) = 1
        /\ cs[1].op = "mul"
        /\ {cs[1].l, cs[1].r} = {Cell("LookupRuntimeTable", "Curr"),
                                 Cell("LookupRuntimeSelector", "Curr")}
        /\ env.ts = 0 => out[1] = 0
        /\ (env.ts = 1 /\ env.tv = 0) => out[1] = 0
        /\ (env.ts = 1 /\ env.tv # 0) => out[1] # 0

\* C6 witness: the constraint was evaluated with the selector on and a nonzero
\* value, while the next row holds an off selector
C6_Witness ==
    /\ pc = "evaluated" /\ env.ts = 1 /\ env.tv = 3 /\ env.nts = 0
    /\ out = <<3>>

\* C7: a runtime table with the id of the registered configuration is rejected
\* when its data length differs from the length of the configuration's
\* first_column, and accepted when the lengths are equal.
C7_LengthCompatibility ==
    (pc = "checked" /\ table.id = cfg.id) =>
        /\ Len(table.data) # Len(cfg.first_column) => out = Panic
        /\ Len(table.data) = Len(cfg.first_column) => out = Ok(table)

\* C7 witness: the table {7, [10, 20]} was rejected against {7, [1, 2, 3]}
C7_Witness ==
    /\ pc = "checked"
    /\ cfg = [id |-> 7, first_column |-> <<1, 2, 3>>]
    /\ table = [id |-> 7, data |-> <<10, 20>>]
    /\ out = Panic

\* C8: id() is the configuration's id, len() the length of first_column,
\* is_empty() holds exactly when len() is 0, the projected specification is
\* {id, len} with no other field, and two configurations with the same id and
\* first columns of the same length project to the same specification.
C8_AccessorsAndProjection ==
    pc = "setup" =>
        /\ out.id = cfg.id
        /\ out.len = Len(cfg.first_column)
        /\ out.is_empty <=> (out.len = 0)
        /\ DOMAIN out.spec = {"id", "len"}
        /\ out.spec.id = cfg.id
        /\ out.spec.len = Len(cfg.first_column)
        /\ (cfg.id = cfg2.id /\ Len(cfg.first_column) = Len(cfg2.first_column))
              => out.spec = out.spec2

\* C8 witness: {7, [1, 2, 3]} and a configuration with the same id and another
\* first column of the same length were projected
C8_Witness ==
    /\ pc = "setup"
    /\ cfg = [id |-> 7, first_column |-> <<1, 2, 3>>]
    /\ cfg2 = [id |-> 7, first_column |-> <<2, 2, 1>>]
    /\ out.len = 3 /\ ~out.is_empty
    /\ out.spec = [id |-> 7, len |-> 3]
    /\ out.spec2 = out.spec

====
